---- MODULE Spec2Model ----
(***************************************************************************)
(* Model of bot.py: the expense parser (parse_expense_message) and the     *)
(* message handler (handle_expense) that submits the parsed record to the  *)
(* Notion database and replies to the chat.                                *)
(*                                                                         *)
(* A text is a sequence of symbols.  A symbol is the comma, the space, or  *)
(* a word (a maximal run of other characters), so that str.split(',') and  *)
(* str.strip() are computed on the text rather than assumed.               *)
(***************************************************************************)
EXTENDS Integers, Sequences, FiniteSets, TLC

VARIABLES pc, msg, today, parsed, exc, excText, createCalls, createReturned,
          replies, logged, handled, sameAsPrev, prevCreates

vars == <<pc, msg, today, parsed, exc, excText, createCalls, createReturned,
          replies, logged, handled, sameAsPrev, prevCreates>>

\* Longest message (in comma-separated segments) that is fed to the parser.
MaxSegs == 7

\* Number of inbound messages handled in one run of the bot.
MaxMsgs == 2

Comma == ","

Space == " "

(***************************************************************************)
(* Results of a Python call: a returned value or a raised exception.       *)
(***************************************************************************)
NoExpense ==
    [date |-> <<0, 0, 0>>, item |-> <<>>, price |-> 0, store |-> <<>>,
     category |-> <<>>, quantity |-> <<>>]

Return(v) == [ok |-> TRUE, value |-> v, error |-> ""]

Raise(e) == [ok |-> FALSE, value |-> NoExpense, error |-> e]

(***************************************************************************)
(* str.split(',') and str.strip()                                          *)
(***************************************************************************)
RECURSIVE split(_)
split(text) ==
    IF \A i \in 1..Len(text) : text[i] # Comma
    THEN <<text>>
    ELSE LET i == CHOOSE k \in 1..Len(text) :
                      /\ text[k] = Comma
                      /\ \A j \in 1..(k - 1) : text[j] # Comma
         IN  <<SubSeq(text, 1, i - 1)>> \o split(SubSeq(text, i + 1, Len(text)))

RECURSIVE strip(_)
strip(text) ==
    IF text = <<>> THEN text
    ELSE IF Head(text) = Space THEN strip(Tail(text))
    ELSE IF text[Len(text)] = Space THEN strip(SubSeq(text, 1, Len(text) - 1))
    ELSE text

Parts(message) == [i \in 1..Len(split(message)) |-> strip(split(message)[i])]

(***************************************************************************)
(* datetime.strptime(s, '%Y-%m-%d').date(): the format matches four digits *)
(* of year and one or two digits of month and of day; the fields must then *)
(* name a day of the calendar.                                             *)
(***************************************************************************)
MatchYmd(word) ==
    CASE word = "2024-01-15" -> <<2024, 1, 15>>
      [] word = "2024-1-5"   -> <<2024, 1, 5>>
      [] word = "2024-02-30" -> <<2024, 2, 30>>
      [] OTHER               -> <<>>

DaysInMonth(y, m) ==
    IF m \in {4, 6, 9, 11} THEN 30
    ELSE IF m # 2 THEN 31
    ELSE IF (y % 4 = 0 /\ y % 100 # 0) \/ y % 400 = 0 THEN 29 ELSE 28

strptime(seg) ==
    IF Len(seg) # 1 \/ MatchYmd(seg[1]) = <<>>
    THEN [ok |-> FALSE, date |-> <<0, 0, 0>>]
    ELSE LET f == MatchYmd(seg[1])
         IN  IF f[2] \in 1..12 /\ f[3] \in 1..DaysInMonth(f[1], f[2])
             THEN [ok |-> TRUE, date |-> f]
             ELSE [ok |-> FALSE, date |-> <<0, 0, 0>>]

(***************************************************************************)
(* float(s): the value in thousandths, or a ValueError.                    *)
(***************************************************************************)
FloatValue(word) ==
    CASE word = "3.50"  -> 3500
      [] word = "2.257" -> 2257
      [] word = "0"     -> 0
      [] word = "-5"    -> -5000

IsFloatWord(word) == word \in {"3.50", "2.257", "0", "-5"}

\* Variant: a price must be strictly positive to convert.
float_PositiveOnly(seg) ==
    IF Len(seg) = 1 /\ IsFloatWord(seg[1]) /\ FloatValue(seg[1]) > 0
    THEN [ok |-> TRUE, value |-> FloatValue(seg[1])]
    ELSE [ok |-> FALSE, value |-> 0]

float(seg) ==
    IF Len(seg) = 1 /\ IsFloatWord(seg[1])
    THEN [ok |-> TRUE, value |-> FloatValue(seg[1])]
    ELSE [ok |-> FALSE, value |-> 0]

(***************************************************************************)
(* a, b, ... = parts : tuple unpacking of n targets.                       *)
(***************************************************************************)
UnpackOk(parts, n) == Len(parts) = n

\* The dict literal of the return statement; float(price) may raise.
Record(date, f) ==
    IF float(f[2]).ok
    THEN Return([date |-> date, item |-> f[1], price |-> float(f[2]).value,
                 store |-> f[3], category |-> f[4], quantity |-> f[5]])
    ELSE Raise("could not convert string to float")

\* len(parts) == 6
Branch6(parts, now) ==
    IF strptime(parts[1]).ok
    THEN Record(strptime(parts[1]).date, Tail(parts))
    ELSE IF UnpackOk(parts, 5)
         THEN Record(now, parts)
         ELSE Raise("too many values to unpack (expected 5)")

\* Variant: a first segment that is no date makes the 5-segment parse fail.
Branch5_NoFallback(parts, now) ==
    IF strptime(parts[1]).ok
    THEN Record(strptime(parts[1]).date, Tail(parts) \o <<<<>>>>)
    ELSE Raise("time data does not match format '%Y-%m-%d'")

\* Variant: the parsed date is validated but today's date is stored.
Branch5_DateDiscarded(parts, now) ==
    IF strptime(parts[1]).ok
    THEN Record(now, Tail(parts) \o <<<<>>>>)
    ELSE IF UnpackOk(parts, 5)
         THEN Record(now, parts)
         ELSE Raise("too many values to unpack (expected 5)")

\* len(parts) == 5
Branch5(parts, now) ==
    IF strptime(parts[1]).ok
    THEN Record(strptime(parts[1]).date, Tail(parts) \o <<<<>>>>)
    ELSE IF UnpackOk(parts, 5)
         THEN Record(now, parts)
         ELSE Raise("too many values to unpack (expected 5)")

\* len(parts) == 4
Branch4(parts, now) == Record(now, parts \o <<<<>>>>)

parse_expense_message(message, now) ==
    LET parts == Parts(message)
    IN  CASE Len(parts) = 6 -> Branch6(parts, now)
          [] Len(parts) = 5 -> Branch5(parts, now)
          [] Len(parts) = 4 -> Branch4(parts, now)
          [] OTHER -> Raise("Invalid message format. Use: Item, Price, Store, Category")

(***************************************************************************)
(* Inputs.                                                                 *)
(***************************************************************************)
ProcessingDates == {<<2024, 1, 15>>, <<2026, 11, 5>>}

\* Raw segments offered at each position of a message fed to the parser.
ParseSegsAt(i) ==
    IF i = 1
    THEN {<<"2024-01-15">>, <<"2024-1-5">>, <<"2024-02-30">>, <<"Milk">>,
          <<Space, "3.50">>}
    ELSE IF i \in {2, 3}
    THEN {<<Space, "Milk">>, <<Space, "3.50", Space>>, <<"2.257">>, <<Space, "0">>,
          <<Space, "-5">>, <<>>, <<"3.50", Space, "Milk">>}
    ELSE {<<Space, "Walmart">>, <<Space, "2", Space, "gallons">>}

RECURSIVE ParseMsgs(_)
ParseMsgs(k) ==
    IF k = 1 THEN ParseSegsAt(1)
    ELSE {m \o <<Comma>> \o s : m \in ParseMsgs(k - 1), s \in ParseSegsAt(k)}

ParseInputs == UNION {ParseMsgs(k) : k \in 1..MaxSegs}

Unset == Raise("unset")

\* No call of datetime.now() yet.
NoDate == <<0, 0, 0>>

(***************************************************************************)
(* The parser alone, applied once to every input.                          *)
(***************************************************************************)
InitParse ==
    /\ pc = "call"
    /\ msg \in ParseInputs
    /\ today = NoDate
    /\ parsed = Unset
    /\ exc = "none"
    /\ excText = ""
    /\ createCalls = <<>>
    /\ createReturned = FALSE
    /\ replies = <<>>
    /\ logged = FALSE
    /\ handled = 0
    /\ sameAsPrev = FALSE
    /\ prevCreates = 0

CallParse(now) ==
    /\ pc = "call"
    /\ today' = now
    /\ parsed' = parse_expense_message(msg, now)
    /\ pc' = "returned"
    /\ UNCHANGED <<msg, exc, excText, createCalls, createReturned, replies,
                   logged, handled, sameAsPrev, prevCreates>>

NextParse == \E now \in ProcessingDates : CallParse(now)

SpecParse == InitParse /\ [][NextParse]_vars


(***************************************************************************)
(* handle_expense                                                          *)
(***************************************************************************)
\* Exception classes an external call can raise: a ValueError (or a subclass
\* of it) and any other subclass of Exception.
ExcClasses == {"ValueError", "Exception"}

CallOutcomes == {"ok"} \cup ExcClasses

\* Variant: a single except clause that treats every exception as unexpected.
ExceptClause_AllUnexpected(class) == "except_other"

\* The except clause that catches an exception raised inside the try block.
ExceptClause(class) ==
    IF class = "ValueError" THEN "except_value" ELSE "except_other"

\* Variant: the create call is made whatever the parser did.
AfterParse_AlwaysCreate(r) == "create"

\* Where control goes after line 93.
AfterParse(r) == IF r.ok THEN "create" ELSE ExceptClause("ValueError")

\* Variant: a failed create call is tried again.
AfterCreate_Retry(outcome) == IF outcome = "ok" THEN "confirm" ELSE "create"

\* Variant: the confirmation is sent whether or not the create call returned.
AfterCreate_ConfirmAnyway(outcome) == "confirm"

\* Where control goes after the create call of lines 96-144.
AfterCreate(outcome) == IF outcome = "ok" THEN "confirm" ELSE ExceptClause(outcome)

\* Where control goes after the reply of lines 147-155.
AfterConfirm(outcome) == IF outcome = "ok" THEN "idle" ELSE ExceptClause(outcome)

Pad2(n) == IF n < 10 THEN "0" \o ToString(n) ELSE ToString(n)

\* date.isoformat(), which is also str(date)
isoformat(d) == ToString(d[1]) \o "-" \o Pad2(d[2]) \o "-" \o Pad2(d[3])

\* f"{price:.2f}": the value rounded to hundredths (kept in thousandths).
Format2f(p) == ((p + 5) \div 10) * 10

\* The properties argument of notion.pages.create.
Properties(e) ==
    [Date |-> isoformat(e.date), Item |-> e.item, Price |-> e.price,
     Store |-> e.store, Category |-> e.category, Quantity |-> e.quantity]

NoProperties ==
    [Date |-> "", Item |-> <<>>, Price |-> 0, Store |-> <<>>, Category |-> <<>>,
     Quantity |-> <<>>]

\* The fields shown by the confirmation message.
Confirmation(e) ==
    [Date |-> isoformat(e.date), Item |-> e.item, Price |-> Format2f(e.price),
     Store |-> e.store, Category |-> e.category, Quantity |-> e.quantity]

\* One call of update.message.reply_text: the message passed to it and
\* whether the call returned (rather than raised).
Reply(kind, text, shown, outcome) ==
    [kind |-> kind, text |-> text, shown |-> shown, returned |-> outcome = "ok"]

\* Raw segments offered at each position of an inbound message.
InboundSegsAt(i) ==
    IF i = 1 THEN {<<"2024-01-15">>, <<"2024-1-5">>, <<"Milk">>}
    ELSE IF i = 2
    THEN {<<Space, "2.257", Space>>, <<Space, "-5">>, <<Space, "0">>, <<Space, "Milk">>}
    ELSE IF i = 3 THEN {<<Space, "2.257">>, <<Space, "Milk">>}
    ELSE {<<Space, "Walmart">>}

RECURSIVE InboundMsgs(_)
InboundMsgs(k) ==
    IF k = 1 THEN InboundSegsAt(1)
    ELSE {m \o <<Comma>> \o s : m \in InboundMsgs(k - 1), s \in InboundSegsAt(k)}

Inbound == UNION {InboundMsgs(k) : k \in 1..MaxSegs}

Init ==
    /\ pc = "idle"
    /\ msg = <<>>
    /\ today = NoDate
    /\ parsed = Unset
    /\ exc = "none"
    /\ excText = ""
    /\ createCalls = <<>>
    /\ createReturned = FALSE
    /\ replies = <<>>
    /\ logged = FALSE
    /\ handled = 0
    /\ sameAsPrev = FALSE
    /\ prevCreates = 0

\* The dispatcher hands the next non-command text message to handle_expense.
Receive(m) ==
    /\ pc = "idle"
    /\ handled < MaxMsgs
    /\ msg' = m
    /\ sameAsPrev' = (handled > 0 /\ m = msg)
    /\ prevCreates' = Len(createCalls)
    /\ parsed' = Unset
    /\ exc' = "none"
    /\ excText' = ""
    /\ createCalls' = <<>>
    /\ createReturned' = FALSE
    /\ replies' = <<>>
    /\ logged' = FALSE
    /\ pc' = "parse"
    /\ today' = NoDate
    /\ UNCHANGED handled

\* line 93
Parse(now) ==
    /\ pc = "parse"
    /\ today' = now
    /\ LET r == parse_expense_message(msg, now)
       IN  /\ parsed' = r
           /\ pc' = AfterParse(r)
           /\ exc' = IF r.ok THEN "none" ELSE "ValueError"
           /\ excText' = r.error
    /\ UNCHANGED <<msg, createCalls, createReturned, replies, logged, handled,
                   sameAsPrev, prevCreates>>

\* lines 96-144
Create(outcome, text) ==
    /\ pc = "create"
    /\ createCalls' = Append(createCalls, Properties(parsed.value))
    /\ createReturned' = (outcome = "ok")
    /\ pc' = AfterCreate(outcome)
    /\ exc' = IF outcome = "ok" THEN "none" ELSE outcome
    /\ excText' = IF outcome = "ok" THEN "" ELSE text
    /\ UNCHANGED <<msg, today, parsed, replies, logged, handled, sameAsPrev,
                   prevCreates>>

\* lines 147-155
Confirm(outcome) ==
    /\ pc = "confirm"
    /\ replies' = Append(replies,
                         Reply("success", "", Confirmation(parsed.value), outcome))
    /\ pc' = AfterConfirm(outcome)
    /\ exc' = IF outcome = "ok" THEN "none" ELSE outcome
    /\ excText' = IF outcome = "ok" THEN "" ELSE "reply failed"
    /\ handled' = IF outcome = "ok" THEN handled + 1 ELSE handled
    /\ UNCHANGED <<msg, today, parsed, createCalls, createReturned, logged,
                   sameAsPrev, prevCreates>>

\* lines 157-161; an exception raised here leaves the handler
ExceptValueError(outcome) ==
    /\ pc = "except_value"
    /\ replies' = Append(replies, Reply("format", excText, NoProperties, outcome))
    /\ pc' = "idle"
    /\ handled' = handled + 1
    /\ exc' = IF outcome = "ok" THEN "none" ELSE outcome
    /\ UNCHANGED <<msg, today, parsed, excText, createCalls, createReturned,
                   logged, sameAsPrev, prevCreates>>

\* lines 162-165; an exception raised here leaves the handler
ExceptException(outcome) ==
    /\ pc = "except_other"
    /\ logged' = TRUE
    /\ replies' = Append(replies, Reply("unexpected", excText, NoProperties, outcome))
    /\ pc' = "idle"
    /\ handled' = handled + 1
    /\ exc' = IF outcome = "ok" THEN "none" ELSE outcome
    /\ UNCHANGED <<msg, today, parsed, excText, createCalls, createReturned,
                   sameAsPrev, prevCreates>>

Next ==
    \/ \E m \in Inbound : Receive(m)
    \/ \E now \in ProcessingDates : Parse(now)
    \/ \E o \in CallOutcomes, t \in {"notion error"} : Create(o, t)
    \/ \E o \in CallOutcomes : Confirm(o)
    \/ \E o \in CallOutcomes : ExceptValueError(o)
    \/ \E o \in CallOutcomes : ExceptException(o)

Spec == Init /\ [][Next]_vars


(***************************************************************************)
(* Vocabulary of the properties.                                           *)
(***************************************************************************)
\* Number of comma-separated segments, counted on the raw text.
SegCount(m) == Cardinality({i \in 1..Len(m) : m[i] = Comma}) + 1

\* The handler has finished with the message in msg.
Handled == pc = "idle" /\ handled > 0

\* The parser has returned or raised for the message in msg.
ParserRan == parsed # Unset

\* The segment the parser converts to the price.
ResolvedPrice(m) ==
    LET p == Parts(m)
    IN  IF Len(p) \in {5, 6} /\ strptime(p[1]).ok THEN p[3] ELSE p[2]

IsNumeric(seg) == Len(seg) = 1 /\ IsFloatWord(seg[1])

\* The message is one the parser has to reject.
Malformed(m) ==
    \/ SegCount(m) \notin {4, 5, 6}
    \/ ~IsNumeric(ResolvedPrice(m))

\* The text is a date written exactly as YYYY-MM-DD.
IsIsoDate(seg) == strptime(seg).ok /\ isoformat(strptime(seg).date) = seg[1]

RepliesOfKind(k) == {i \in 1..Len(replies) : replies[i].kind = k}

----------------------------------------------------------------------------
\* C1: when the parser fails for a message (its segment count is not 4, 5 or
\* 6, or its price text is not numeric), no create call is made for it at
\* any point of its handling.
C1_NoCreateOnParseFailure ==
    (msg # <<>> /\ (~parsed.ok \/ Malformed(msg))) => createCalls = <<>>

C1_Witness ==
    /\ Handled
    /\ SegCount(msg) = 4
    /\ ~IsNumeric(ResolvedPrice(msg))
    /\ ~parsed.ok
    /\ Len(replies) = 1
    /\ createCalls = <<>>

\* C2: once a message is handled the parser has run for it and exactly one
\* reply has gone out to the conversation, on every path of the handler.
C2_ExactlyOneReply ==
    Handled =>
        /\ ParserRan
        /\ Cardinality({i \in 1..Len(replies) : replies[i].returned}) = 1

\* C3: a message causes at most one create call, and exactly one when it
\* parses; a failed create call is not repeated, and a message identical to
\* the one before it causes a create call of its own.
C3_OneCreatePerParsedMessage ==
    /\ Len(createCalls) <= 1
    /\ (Handled /\ parsed.ok) => Len(createCalls) = 1
    /\ (Handled /\ ~parsed.ok) => Len(createCalls) = 0
    /\ (Handled /\ parsed.ok /\ sameAsPrev) => prevCreates = 1

C3_Witness ==
    /\ Handled
    /\ sameAsPrev
    /\ parsed.ok
    /\ prevCreates = 1
    /\ Len(createCalls) = 1
    /\ createReturned

\* C4: when the message parsed and the create call raised, every reply is
\* the unexpected-error message carrying the raised error's text, and the
\* error has been logged by the time the message is handled.
C4_CreateFailureIsUnexpected ==
    (parsed.ok /\ Len(createCalls) = 1 /\ ~createReturned) =>
        /\ \A i \in 1..Len(replies) :
               replies[i].kind = "unexpected" /\ replies[i].text = "notion error"
        /\ Handled => (logged /\ Len(replies) = 1)

\* C5: a message whose segment count is not 4, 5 or 6, or whose price
\* segment is not numeric, is rejected by the parser with a ValueError, and
\* the only reply made for it is the format-guidance message.
C5_MalformedGetsFormatGuidance ==
    (msg # <<>> /\ Malformed(msg)) =>
        /\ ParserRan => ~parsed.ok
        /\ \A i \in 1..Len(replies) :
               replies[i].kind = "format" /\ replies[i].text = parsed.error
        /\ Handled => Len(replies) = 1

C5_Witness ==
    /\ Handled
    /\ SegCount(msg) = 7
    /\ ~parsed.ok
    /\ Len(replies) = 1
    /\ replies[1].kind = "format"
    /\ replies[1].returned

\* C6: a 6-segment message whose first segment is no date and whose second
\* segment is numeric yields a record dated today with item, price, store,
\* category and quantity taken from segments 0..4.
C6_SixSegmentFallback ==
    (pc = "returned" /\ SegCount(msg) = 6 /\ ~strptime(Parts(msg)[1]).ok
        /\ IsNumeric(Parts(msg)[2])) =>
        LET p == Parts(msg)
        IN  parsed = Return([date |-> today, item |-> p[1],
                             price |-> FloatValue(p[2][1]), store |-> p[3],
                             category |-> p[4], quantity |-> p[5]])

\* C7: a 5-segment message is read as date, item, price, store, category
\* with an empty quantity when its first segment parses as a date, and as
\* item, price, store, category, quantity dated today when it does not; the
\* parse fails only when the price of that reading is not numeric.
C7_FiveSegments ==
    (pc = "returned" /\ SegCount(msg) = 5) =>
        LET p == Parts(msg)
            d == strptime(p[1])
        IN  IF d.ok
            THEN IF IsNumeric(p[3])
                 THEN parsed = Return([date |-> d.date, item |-> p[2],
                                       price |-> FloatValue(p[3][1]),
                                       store |-> p[4], category |-> p[5],
                                       quantity |-> <<>>])
                 ELSE parsed = Raise("could not convert string to float")
            ELSE IF IsNumeric(p[2])
                 THEN parsed = Return([date |-> today, item |-> p[1],
                                       price |-> FloatValue(p[2][1]),
                                       store |-> p[3], category |-> p[4],
                                       quantity |-> p[5]])
                 ELSE parsed = Raise("could not convert string to float")

C7_Witness ==
    /\ pc = "returned"
    /\ SegCount(msg) = 5
    /\ ~strptime(Parts(msg)[1]).ok
    /\ parsed.ok
    /\ parsed.value.date = today
    /\ parsed.value.quantity = <<"2", Space, "gallons">>

\* C8 as stated: every record the parser returns, and every record that is
\* submitted, has a price greater than zero.
C8_PricePositive ==
    /\ parsed.ok => parsed.value.price > 0
    /\ \A i \in 1..Len(createCalls) : createCalls[i].Price > 0

\* C8 amended: a 4-, 5- or 6-segment message whose price segment is numeric
\* (and that is not a 6-segment message without a date) yields a record
\* whose price is the value of that segment, whatever its sign, and that
\* record is submitted with that price.
C8_PriceIsTheNumericValue ==
    (ParserRan /\ SegCount(msg) \in {4, 5, 6} /\ IsNumeric(ResolvedPrice(msg))
        /\ ~(SegCount(msg) = 6 /\ ~strptime(Parts(msg)[1]).ok)) =>
        /\ parsed.ok
        /\ parsed.value.price = FloatValue(ResolvedPrice(msg)[1])
        /\ \A i \in 1..Len(createCalls) :
               createCalls[i].Price = FloatValue(ResolvedPrice(msg)[1])
        /\ Handled => Len(createCalls) = 1

C8_Witness ==
    /\ Handled
    /\ parsed.ok
    /\ parsed.value.price < 0
    /\ Len(createCalls) = 1
    /\ createCalls[1].Price < 0
    /\ createReturned

\* C9 as stated: a returned record is dated by segment 0 when the message has
\* 5 or 6 segments and segment 0 is a date written as YYYY-MM-DD, and is
\* dated today otherwise; a 4-segment record has an empty quantity.
C9_DateFromIsoSegment ==
    (pc = "returned" /\ parsed.ok) =>
        LET p == Parts(msg)
        IN  /\ parsed.value.date =
                  IF Len(p) \in {5, 6} /\ IsIsoDate(p[1])
                  THEN strptime(p[1]).date ELSE today
            /\ Len(p) = 4 => parsed.value.quantity = <<>>

\* C9 amended: a returned record is dated by segment 0 when the message has
\* 5 or 6 segments and strptime accepts segment 0 for %Y-%m-%d (which takes
\* 2024-1-5 as well as 2024-01-05), and is dated today otherwise; a
\* 4-segment record is dated today and has an empty quantity.
C9_DateFromAcceptedSegment ==
    (pc = "returned" /\ parsed.ok) =>
        LET p == Parts(msg)
        IN  /\ parsed.value.date =
                  IF Len(p) \in {5, 6} /\ strptime(p[1]).ok
                  THEN strptime(p[1]).date ELSE today
            /\ Len(p) = 4 => (parsed.value.date = today /\ parsed.value.quantity = <<>>)

C9_Witness ==
    /\ pc = "returned"
    /\ parsed.ok
    /\ SegCount(msg) = 5
    /\ Parts(msg)[1] = <<"2024-1-5">>
    /\ parsed.value.date = <<2024, 1, 5>>
    /\ parsed.value.date # today

\* C10 as stated: a success confirmation is made only after the create call
\* of the same message has returned, and it shows the values passed to it.
C10_ConfirmationShowsCreatedValues ==
    \A i \in RepliesOfKind("success") :
        /\ createReturned
        /\ Len(createCalls) = 1
        /\ replies[i].shown = createCalls[1]

\* C10 amended: a success confirmation is made only after the create call of
\* the same message has returned; it shows the date, item, store, category
\* and quantity passed to that call, and the price passed to it rounded to
\* two decimals.
C10_ConfirmationShowsRoundedPrice ==
    \A i \in RepliesOfKind("success") :
        /\ createReturned
        /\ Len(createCalls) = 1
        /\ replies[i].shown = [createCalls[1] EXCEPT !.Price = Format2f(@)]

C10_Witness ==
    /\ Handled
    /\ createReturned
    /\ Len(replies) = 1
    /\ replies[1].kind = "success"
    /\ replies[1].returned
    /\ replies[1].shown.Price # createCalls[1].Price
    /\ replies[1].shown.Item = createCalls[1].Item

====
